---------------------------- MODULE Spec2Model ----------------------------
(***************************************************************************)
(* Verification model of ymiftah/energysys.                                *)
(*                                                                         *)
(*   Spec      LambdaIteration.solve (solvers/economic_dispatch.py, and    *)
(*             its verbatim copy solvers/uc.py): the solver object, one    *)
(*             step per pass of the for-loop.  The system argument is     *)
(*             either a core.System or any other object that iterates over *)
(*             its units and has a units attribute.                        *)
(*   BuildSpec the _build_model methods of BaseModel, LPModel, DCModel and *)
(*             SCDCModel (solvers/unit_commitment.py): one step per        *)
(*             _build_* method, the model recorded as the components that  *)
(*             the method attaches to self.m.                              *)
(*   SupportSpec the support lines that LPModel._build_linear_objective   *)
(*             adds for one unit and period, in exact rational arithmetic, *)
(*             and their largest right-hand side at a power P.             *)
(*   FeasSpec  the assignments of the binaries of one unit that satisfy    *)
(*             the constraints of BaseModel._build_units_equations, built  *)
(*             period by period.                                           *)
(*                                                                         *)
(* Arithmetic.  The program computes in IEEE doubles; the model computes   *)
(* in exact fixed point.  A marginal price lambda is the integer           *)
(* lambda * LamScale, LamScale = C2Den * 2^(DefaultMaxIter+1), so that the *)
(* bracket (lambda_max - lambda_min)/2 can be halved DefaultMaxIter times  *)
(* without rounding.  A power is the integer floor(P * PowScale).          *)
(***************************************************************************)
EXTENDS Integers, Sequences, FiniteSets, TLC

VARIABLES
    pc,            \* position of the caller/solver: "idle", "loop", "return",
                   \* "done", "raised"
    system,        \* argument of solve: sequence of units (System.__iter__ order)
    unitsAttr,     \* what iterating system.units yields: "names" for a
                   \* core.System, whose units is the dict name -> unit;
                   \* "units" for an object whose units holds the units themselves
    load,          \* argument of solve, in power units
    MAX_ITER,      \* argument of solve
    i,             \* number of completed passes of the for-loop
    Delta,         \* local Delta, in lambda units
    eps,           \* local eps, in power units
    powers,        \* local powers (<<>> while unbound)
    lambda_value,  \* self.lambda_value (None or Some(x))
    history,       \* self.history: sequence of [lambda, err] pairs
    systemLoad,    \* self.systemLoad (None or Some(x))
    exit,          \* how the loop was left: "converged", "saturated", "exhausted",
                   \* or the exception that ended the call
    result,        \* value returned by the last completed call (<<>> before)
    calls,         \* number of calls of solve started on this object
    \* ---- model construction (BuildSpec)
    bpc,           \* position in _build_model: "idle", "units", "reserve",
                   \* "balance", "objective", "security", "done", "error"
    cls,           \* class of the model object
    ucsys,         \* the UCSystem: [units, reserve_req]
    net,           \* the Network: [lines, links] (no lines for the single-bus classes)
    ucload,        \* load: sequence per period, or mapping bus -> sequence
    conts,         \* contingencies argument: [all |-> TRUE] for 'all', or the arcs given
    m,             \* self.m, as the components attached to it
    berr,          \* exception that ended _build_model, with the line that
                   \* raised it ("none" if none)
    \* ---- feasible assignments (FeasSpec)
    horizon,       \* T = len(load)
    funit,         \* the unit
    binIsOn,       \* binIsOn[t, u] for the periods assigned so far (index t+1)
    binStartUp,    \* binStartUp[t, u]
    binShutDown,   \* binShutDown[t, u]
    \* ---- support lines of one unit (SupportSpec)
    spc,           \* position in _build_linear_objective: "idle", "lines",
                   \* "built", "evaluated"
    sunit,         \* the unit
    snum,          \* num_lines
    slines,        \* the support lines added so far for one (t, u)
    son,           \* value of binIsOn[t, u] at which the lines are evaluated
    sx,            \* grid index of the power P at which they are evaluated
    senv           \* the largest right-hand side at P (None: not a number)

liVars == <<pc, system, unitsAttr, load, MAX_ITER, i, Delta, eps, powers, lambda_value,
            history, systemLoad, exit, result, calls>>
buildVars == <<bpc, cls, ucsys, net, ucload, conts, m, berr>>
feasVars == <<horizon, funit, binIsOn, binStartUp, binShutDown>>
supVars == <<spc, sunit, snum, slines, son, sx, senv>>
vars == <<liVars, buildVars, feasVars, supVars>>

---------------------------------------------------------------------------
(* Scales and bounds *)

DefaultMaxIter == 15
TwoK == 65536                    \* 2^(DefaultMaxIter+1)
C2Den == 10                      \* curve[2] is given in tenths
LamScale == C2Den * TwoK
PowScale == 5000000               \* power units per unit of power
MaxUnits == 2
SmallIter == 1
MaxLoadK == 8
MaxCalls == 2

None == <<>>
Some(x) == <<x>>
Val(o) == o[1]

Abs(x) == IF x < 0 THEN -x ELSE x
Min2(a, b) == IF a < b THEN a ELSE b
Max2(a, b) == IF a > b THEN a ELSE b

RECURSIVE SeqSum(_)
SeqSum(s) == IF s = <<>> THEN 0 ELSE s[1] + SeqSum(Tail(s))

RECURSIVE SetMin(_)
SetMin(S) == LET x == CHOOSE y \in S : TRUE
             IN IF S = {x} THEN x ELSE Min2(x, SetMin(S \ {x}))

RECURSIVE SetMax(_)
SetMax(S) == LET x == CHOOSE y \in S : TRUE
             IN IF S = {x} THEN x ELSE Max2(x, SetMax(S \ {x}))

(* <<q, r>> with n * 5^k = q*b + r and 0 <= r < b, for n >= 0 and           *)
(* 0 < b < 2^28, one factor 5 at a time so that no intermediate product     *)
(* leaves 32 bits.                                                          *)
RECURSIVE Pow5Iter(_, _, _, _)
Pow5Iter(q, r, k, b) ==
    IF k = 0 THEN <<q, r>>
    ELSE Pow5Iter(5 * q + (5 * r) \div b, (5 * r) % b, k - 1, b)

MulPow5QR(n, k, b) == Pow5Iter(n \div b, n % b, k, b)

(* floor(n * 5^k / b) for any integer n *)
FloorMulPow5Div(n, k, b) ==
    IF n >= 0 THEN MulPow5QR(n, k, b)[1]
    ELSE LET qr == MulPow5QR(-n, k, b)
         IN IF qr[2] = 0 THEN -qr[1] ELSE -qr[1] - 1

---------------------------------------------------------------------------
(* systems/thermal.py *)

(* ThermalUnit.__init__ with its keyword defaults *)
ThermalUnit(name, c0, c1, c2n, fuel_cost, min_power, max_power) ==
    [name |-> name, c0 |-> c0, c1 |-> c1, c2n |-> c2n, fuel_cost |-> fuel_cost,
     min_power |-> min_power, max_power |-> max_power, start_up_cost |-> 0,
     ramp_up |-> None, ramp_down |-> None, min_uptime |-> None, min_rest |-> None]

(* the keyword arguments ramp_up, ramp_down, min_uptime, min_rest *)
WithDynamics(u, ru, rd, mu, mr) ==
    [u EXCEPT !.ramp_up = ru, !.ramp_down = rd, !.min_uptime = mu, !.min_rest = mr]

(* (curve[1] + curve[2]*P*2) * C2Den, P an integer power *)
marginal_heatrate(u, P) == u.c1 * C2Den + u.c2n * P * 2

(* marginal_heatrate(P) * fuel_cost, in lambda units *)
marginal_cost(u, P) == marginal_heatrate(u, P) * u.fuel_cost * TwoK

(* (x / fuel_cost - curve[1]) / 2 / (curve[2] + 1e-7), in power units.      *)
(* With x = X/LamScale and curve[2] = c2n/C2Den this is                     *)
(*   (X - c1*fc*LamScale) * 10^7 / (fc * 2*TwoK * (c2n*10^7 + C2Den)),      *)
(* times PowScale = 5 * 10^6, i.e. after cancelling 10 * 2^12:              *)
(*   (X - c1*fc*LamScale) * 5^13 / (fc * 32 * (c2n*10^6 + 1)).              *)
InvDen(u) == u.fuel_cost * 32 * (u.c2n * 1000000 + 1)
InvArg(u, X) == X - u.c1 * u.fuel_cost * LamScale
inv_marginal_cost(u, X) == FloorMulPow5Div(InvArg(u, X), 13, InvDen(u))

---------------------------------------------------------------------------
(* solvers/economic_dispatch.py: LambdaIteration *)

ConvTol == PowScale \div 1000            \* 1e-3
SatTol == (5 * PowScale) \div 100        \* 5e-2

min_power_vec(sys) == [k \in 1..Len(sys) |-> sys[k].min_power * PowScale]
max_power_vec(sys) == [k \in 1..Len(sys) |-> sys[k].max_power * PowScale]

lambda_min(sys) ==
    SetMin({marginal_cost(sys[k], sys[k].min_power) : k \in 1..Len(sys)})
lambda_max(sys) ==
    SetMax({marginal_cost(sys[k], sys[k].max_power) : k \in 1..Len(sys)})

(* lines 72-75: inverse marginal cost of every unit, clipped *)
Dispatch(sys, X) ==
    [k \in 1..Len(sys) |->
        Min2(sys[k].max_power * PowScale,
             Max2(sys[k].min_power * PowScale, inv_marginal_cost(sys[k], X)))]

(* d*d \div 10^6 and d*d % 10^6 for 0 <= d < 10^6, d = a*1000 + b *)
SqHi(d) == (d \div 1000) * (d \div 1000)
             + (2 * (d \div 1000) * (d % 1000) * 1000 + (d % 1000) * (d % 1000)) \div 1000000
SqLo(d) == (2 * (d \div 1000) * (d % 1000) * 1000 + (d % 1000) * (d % 1000)) % 1000000

(* np.linalg.norm(a - b) < thr: every |a[k]-b[k]| < thr and the sum of the  *)
(* squares < thr^2, the squares kept as (multiple of 10^6, rest) so that    *)
(* nothing leaves 32 bits.                                                  *)
NormLt(a, b, thr) ==
    /\ \A k \in 1..Len(a) : Abs(a[k] - b[k]) < thr
    /\ LET hi == SeqSum([k \in 1..Len(a) |-> SqHi(Abs(a[k] - b[k]))])
           lo == SeqSum([k \in 1..Len(a) |-> SqLo(Abs(a[k] - b[k]))])
       IN \/ hi + lo \div 1000000 < SqHi(thr)
          \/ hi + lo \div 1000000 = SqHi(thr) /\ lo % 1000000 < SqLo(thr)

Converged(e) == Abs(e) < ConvTol
Saturated(sys, p) ==
    NormLt(p, min_power_vec(sys), SatTol) \/ NormLt(p, max_power_vec(sys), SatTol)

(* line 81: Delta /= 2 *)
HalvedDelta_Kept(D) == D
HalvedDelta(D) == D \div 2

(* lines 81-85, D being Delta after "Delta /= 2" *)
NextLambda_Unhalved(X, D, e) ==
    IF e > 0 THEN X - 2 * D ELSE IF e < 0 THEN X + 2 * D ELSE X
NextLambda(X, D, e) ==
    IF e > 0 THEN X - D ELSE IF e < 0 THEN X + D ELSE X

(* line 60: self.history = {"lambda": [], "err": []} *)
FreshHistory(h) == <<>>

(* lines 86-89 and the end of range(MAX_ITER), after pass number k *)
LoopExit(sys, p, e, k, mi) ==
    IF Converged(e) THEN "converged"
    ELSE IF Saturated(sys, p) THEN "saturated"
    ELSE IF k = mi THEN "exhausted"
    ELSE "none"

---------------------------------------------------------------------------
(* Inputs *)

UnitTypes ==
    << [c0 |-> 0, c1 |-> 10, c2n |-> 1, fuel_cost |-> 1, min_power |-> 0,  max_power |-> 100],
       [c0 |-> 0, c1 |-> 10, c2n |-> 1, fuel_cost |-> 1, min_power |-> 0,  max_power |-> 50],
       [c0 |-> 5, c1 |-> 8,  c2n |-> 2, fuel_cost |-> 2, min_power |-> 10, max_power |-> 60] >>

UnitNames == <<"u1", "u2", "u3">>

(* the systems of up to MaxUnits units, one for every multiset of unit     *)
(* types: solve treats the units alike, whatever their order               *)
Systems ==
    UNION { { [k \in 1..n |->
                ThermalUnit(UnitNames[k], UnitTypes[f[k]].c0, UnitTypes[f[k]].c1,
                            UnitTypes[f[k]].c2n, UnitTypes[f[k]].fuel_cost,
                            UnitTypes[f[k]].min_power, UnitTypes[f[k]].max_power)]
              : f \in { g \in [1..n -> 1..Len(UnitTypes)] :
                          \A j \in 1..(n - 1) : g[j] <= g[j + 1] } }
            : n \in 1..MaxUnits }

Loads == { (11 * k) * PowScale : k \in 0..MaxLoadK }
            \cup { 50 * PowScale, 150 * PowScale }

UnitsAttrs == {"names", "units"}

MaxIterChoices == (1..SmallIter) \cup {DefaultMaxIter}

---------------------------------------------------------------------------
(* Actions *)

EmptyModel ==
    [sets |-> {}, vars |-> {}, cons |-> {}, balance |-> {}, support |-> {},
     fixed |-> {}, objective |-> {}, suffix |-> {}]

BuildIdle ==
    /\ bpc = "idle" /\ cls = "none" /\ ucsys = <<>> /\ net = <<>>
    /\ ucload = <<>> /\ conts = [all |-> FALSE, arcs |-> {}]
    /\ m = EmptyModel /\ berr = "none"

FeasIdle ==
    /\ horizon = 0 /\ funit = <<>>
    /\ binIsOn = <<>> /\ binStartUp = <<>> /\ binShutDown = <<>>

(* LambdaIteration.__init__ *)
LIInit ==
    /\ pc = "idle"
    /\ system = <<>>
    /\ unitsAttr = "units"
    /\ load = 0
    /\ MAX_ITER = 0
    /\ i = 0
    /\ Delta = 0
    /\ eps = 0
    /\ powers = <<>>
    /\ lambda_value = None
    /\ history = <<>>
    /\ systemLoad = None
    /\ exit = "none"
    /\ result = <<>>
    /\ calls = 0

SupportIdle ==
    /\ spc = "idle" /\ sunit = <<>> /\ snum = 0 /\ slines = <<>>
    /\ son = 1 /\ sx = 0 /\ senv = None

Init == LIInit /\ BuildIdle /\ FeasIdle /\ SupportIdle

(* solve, lines 60-70.  Lines 64-67 iterate over system.units: over the    *)
(* keys of the dict when system is a core.System, and a key is a str, which *)
(* has no marginal_cost: the call ends in AttributeError at line 64, after  *)
(* lines 60-61 have reset the history and stored the load.                 *)
SolveBegin(sys, ua, ld, mi) ==
    /\ pc \in {"idle", "done"}
    /\ calls < MaxCalls
    /\ calls' = calls + 1
    /\ system' = sys
    /\ unitsAttr' = ua
    /\ load' = ld
    /\ MAX_ITER' = mi
    /\ history' = FreshHistory(history)
    /\ systemLoad' = Some(ld)
    /\ powers' = <<>>
    /\ i' = 0
    /\ result' = <<>>
    /\ IF ua = "names"
       THEN /\ exit' = "AttributeError"
            /\ pc' = "raised"
            /\ Delta' = 0
            /\ eps' = 0
            /\ UNCHANGED lambda_value
       ELSE /\ Delta' = (lambda_max(sys) - lambda_min(sys)) \div 2
            /\ lambda_value' =
                  Some(lambda_min(sys) + (lambda_max(sys) - lambda_min(sys)) \div 2)
            /\ eps' = PowScale
            /\ exit' = "none"
            /\ pc' = "loop"
    /\ UNCHANGED <<buildVars, feasVars, supVars>>

(* one pass of the for-loop, lines 71-89 *)
Iterate ==
    /\ pc = "loop"
    /\ i < MAX_ITER
    /\ \E p \in {Dispatch(system, Val(lambda_value))} :
       \E e \in {SeqSum(p) - load}, D \in {HalvedDelta(Delta)} :
          /\ powers' = p
          /\ eps' = e
          /\ history' = Append(history, [lambda |-> Val(lambda_value), err |-> e])
          /\ Delta' = D
          /\ lambda_value' = Some(NextLambda(Val(lambda_value), D, e))
          /\ i' = i + 1
          /\ exit' = LoopExit(system, p, e, i + 1, MAX_ITER)
          /\ pc' = IF LoopExit(system, p, e, i + 1, MAX_ITER) = "none"
                   THEN "loop" ELSE "return"
    /\ UNCHANGED <<system, unitsAttr, load, MAX_ITER, systemLoad, result, calls>>
    /\ UNCHANGED <<buildVars, feasVars, supVars>>

(* line 91 *)
Return ==
    /\ pc = "return"
    /\ result' = powers
    /\ pc' = "done"
    /\ UNCHANGED <<system, unitsAttr, load, MAX_ITER, i, Delta, eps, powers, lambda_value,
                   history, systemLoad, exit, calls>>
    /\ UNCHANGED <<buildVars, feasVars, supVars>>

(* a call on a fresh solver or on one whose last call returned; a solver   *)
(* whose call raised is left to the handler of its caller                  *)
Solve ==
    pc \in {"idle", "done"} /\ calls < MaxCalls
    /\ \E sys \in Systems, ua \in UnitsAttrs, ld \in Loads, mi \in MaxIterChoices :
          SolveBegin(sys, ua, ld, mi)

Next == Solve \/ Iterate \/ Return

Spec == Init /\ [][Next]_vars

---------------------------------------------------------------------------
(* systems/core.py, systems/thermal.py: UCSystem, Line, Network *)

MaxT == 2
MaxUCUnits == 2
ReserveDen == 10                 \* reserve_req is given in tenths
NumLines == 2                    \* default num_lines of _build_linear_objective

UCSystem(units, reserve_req) == [units |-> units, reserve_req |-> reserve_req]
Line(a, b, lim, z) == [arc |-> <<a, b>>, power_lim |-> lim, Z |-> z]
Network(lines, links) == [lines |-> lines, links |-> links]

BusOrder == <<"b1", "b2", "b3">>
BusRank(b) == CHOOSE k \in 1..Len(BusOrder) : BusOrder[k] = b

(* Network.buses: the sorted union of the end points of the lines *)
Buses(n) == UNION { {l.arc[1], l.arc[2]} : l \in n.lines }
FirstBus(n) == CHOOSE b \in Buses(n) : \A c \in Buses(n) : BusRank(b) <= BusRank(c)
Arcs(n) == { l.arc : l \in n.lines }

(* Network.link *)
link(n, bus, u) == <<bus, u>> \in n.links

(* Network.power_lim, Network.Z: both orientations, None / 1 without a line *)
LineOf(n, a, b) == { l \in n.lines : l.arc = <<a, b>> \/ l.arc = <<b, a>> }
power_lim(n, a, b) ==
    IF LineOf(n, a, b) = {} THEN None ELSE (CHOOSE l \in LineOf(n, a, b) : TRUE).power_lim
Z(n, a, b) ==
    IF LineOf(n, a, b) = {} THEN 1 ELSE (CHOOSE l \in LineOf(n, a, b) : TRUE).Z

Names(sys) == { sys.units[k].name : k \in 1..Len(sys.units) }
UnitOf(sys, name) == sys.units[CHOOSE k \in 1..Len(sys.units) : sys.units[k].name = name]

Periods(T) == 0..(T - 1)
first(T) == 0
last(T) == T - 1

---------------------------------------------------------------------------
(* solvers/unit_commitment.py *)

Con(name, rule, idx) == [name |-> name, rule |-> rule, idx |-> idx]

(* m.<name> = Constraint(...): Block.__setattr__ replaces a component that *)
(* already has this name                                                   *)
AddCon(mm, c) == [mm EXCEPT !.cons = { x \in @ : x.name # c.name } \cup {c}]

RECURSIVE AddCons(_, _)
AddCons(mm, cs) == IF cs = <<>> THEN mm ELSE AddCons(AddCon(mm, Head(cs)), Tail(cs))

AddVars(mm, vs) == [mm EXCEPT !.vars = @ \cup vs]
AddSets(mm, ss) == [mm EXCEPT !.sets = @ \cup ss]

TU(T, sys) == { <<t, u>> : t \in Periods(T), u \in Names(sys) }

(* the rules of _build_units_equations: TRUE where the rule returns a      *)
(* constraint, FALSE where it returns Constraint.Skip                      *)
eq_startup_built(T, t) == t # first(T)
eq_min_uptime_built(u, t) == ~(u.min_uptime = None \/ t > Val(u.min_uptime))
eq_min_rest_built(u, t) == ~(u.min_rest = None \/ t > Val(u.min_rest))
eq_ramp_up_built(T, u, t) == ~(u.ramp_up = None \/ t = first(T))
eq_ramp_down_built(T, u, t) == ~(u.ramp_down = None \/ t = first(T))

(* BaseModel._build_units_equations *)
UnitsEquations(mm, T, sys) ==
    AddCons(AddVars(AddSets(mm, {"units"}),
                    {"varPower", "binStartUp", "binShutDown", "binIsOn"}),
      << Con("eq_startup", "eq_startup",
             { x \in TU(T, sys) : eq_startup_built(T, x[1]) }),
         Con("eq_min_uptime", "eq_min_uptime",
             { x \in TU(T, sys) : eq_min_uptime_built(UnitOf(sys, x[2]), x[1]) }),
         Con("eq_min_rest", "eq_min_rest",
             { x \in TU(T, sys) : eq_min_rest_built(UnitOf(sys, x[2]), x[1]) }),
         Con("eq_ramp_up", "eq_ramp_up",
             { x \in TU(T, sys) : eq_ramp_up_built(T, UnitOf(sys, x[2]), x[1]) }),
         Con("eq_ramp_down", "eq_ramp_down",
             { x \in TU(T, sys) : eq_ramp_down_built(T, UnitOf(sys, x[2]), x[1]) }),
         Con("eq_min_power", "eq_min_power", TU(T, sys)),
         Con("eq_max_power", "eq_max_power", TU(T, sys)) >>)

(* BaseModel._build_reserve_equations; the rules are named after the       *)
(* comments above them (lines 78, 81, 84, 91)                              *)
ReserveEquations(mm, T, sys) ==
    IF sys.reserve_req = 0 THEN mm
    ELSE AddCons(AddVars(mm, {"varReserve"}),
      << Con("eq_reserve_power", "reserve_ge_power", TU(T, sys)),
         Con("eq_reserve_max_power", "reserve_le_max_power", TU(T, sys)),
         Con("eq_reserve_ramp_up", "reserve_ramp_up",
             { x \in TU(T, sys) :
                 ~(UnitOf(sys, x[2]).ramp_up = None \/ x[1] = first(T)) }),
         Con("eq_reserve_ramp_up", "reserve_ramp_down",
             { x \in TU(T, sys) :
                 ~(UnitOf(sys, x[2]).ramp_up = None \/ x[1] = last(T)) }) >>)

(* 1 > r > 0 *)
ReserveActive(sys) == ReserveDen > sys.reserve_req /\ sys.reserve_req > 0

(* load * (1 + r), in units of 1 / ReserveDen *)
ReserveDemand(sys, d) == d * (ReserveDen + sys.reserve_req)

Bal(name, t, bus, c, units, demand, flows) ==
    [name |-> name, t |-> t, bus |-> bus, c |-> c, units |-> units,
     demand |-> demand, flows |-> flows]

AddBalance(mm, es) == [mm EXCEPT !.balance = @ \cup es]

(* BaseModel._build_balance_equations, load a sequence indexed by period *)
BaseBalanceEquations(mm, T, sys, ld) ==
    LET m1 == AddBalance(
                AddCon(mm, Con("eq_balance_power", "balance_power",
                               { <<t>> : t \in Periods(T) })),
                { Bal("eq_balance_power", t, "system", <<>>, Names(sys), ld[t + 1], {})
                  : t \in Periods(T) })
    IN IF ReserveActive(sys)
       THEN AddBalance(
                AddCon(m1, Con("eq_balance_reserve", "balance_reserve",
                               { <<t>> : t \in Periods(T) })),
                { Bal("eq_balance_reserve", t, "system", <<>>, Names(sys),
                      ReserveDemand(sys, ld[t + 1]), {})
                  : t \in Periods(T) })
       ELSE m1

(* load.get(bus, None) *)
LoadGet(ld, bus) == IF bus \in DOMAIN ld THEN Some(ld[bus]) ELSE None

(* lines 207-208 (and 321-322): the demand of a bus in a nodal balance *)
demand(ld, bus, t) == IF LoadGet(ld, bus) = None THEN 0 ELSE Val(LoadGet(ld, bus))[t + 1]

(* the right-hand side of eq_flow_balance: Z(bus, i) * (angle[bus] - angle[i]) *)
(* for every other bus i                                                   *)
FlowTerms(n, bus) == { <<b, Z(n, bus, b)>> : b \in Buses(n) \ {bus} }

LimitedArcs(T, n) ==
    { <<t, a[1], a[2]>> : t \in Periods(T),
                          a \in { x \in Arcs(n) : power_lim(n, x[1], x[2]) # None } }

(* DCModel._build_balance_equations up to line 213 *)
DCBalanceEquations(mm, T, n, sys, ld) ==
    AddBalance(
      AddCons(
        [ AddVars(AddSets(mm, {"buses", "arcs", "busOut", "busIn"}), {"varAngle"})
            EXCEPT !.fixed = @ \cup { <<"varAngle", t, FirstBus(n)>> : t \in Periods(T) } ],
        << Con("eq_flow_limits_up", "flow_limit_up", LimitedArcs(T, n)),
           Con("eq_flow_limits_lo", "flow_limit_lo", LimitedArcs(T, n)),
           Con("eq_flow_balance", "eq_flow_balance",
               { <<t, b>> : t \in Periods(T), b \in Buses(n) }) >>),
      { Bal("eq_flow_balance", x[1], x[2], <<>>,
            { u \in Names(sys) : link(n, x[2], u) }, demand(ld, x[2], x[1]),
            FlowTerms(n, x[2]))
        : x \in { <<t, b>> : t \in Periods(T), b \in Buses(n) } })

(* lines 215-221: load[bus][t] raises KeyError for a bus that is not a key *)
FlowReserveRaises(n, sys, ld) ==
    ReserveActive(sys) /\ \E b \in Buses(n) : b \notin DOMAIN ld

DCFlowReserve(mm, T, n, sys, ld) ==
    IF ReserveActive(sys)
    THEN AddBalance(
           AddCon(mm, Con("eq_flow_reserve", "flow_reserve",
                          { <<t, b>> : t \in Periods(T), b \in Buses(n) })),
           { Bal("eq_flow_reserve", x[1], x[2], <<>>, Names(sys),
                 ReserveDemand(sys, ld[x[2]][x[1] + 1]), {})
             : x \in { <<t, b>> : t \in Periods(T), b \in Buses(n) } })
    ELSE mm

(* LPModel._build_linear_objective: one support line per period, unit and  *)
(* segment, and the objective                                              *)
LinearObjective(mm, T, sys) ==
    [ AddVars(mm, {"varFuelCons"})
        EXCEPT !.support = { <<t, u, k>> : t \in Periods(T), u \in Names(sys),
                                           k \in 0..(NumLines - 1) },
               !.objective = {"cost"} ]

(* line 234 *)
DualSuffix(mm) == [mm EXCEPT !.suffix = {"dual"}]

(* BaseModel._build_model as a whole *)
BaseBuilt(T, sys, ld) ==
    BaseBalanceEquations(
        ReserveEquations(UnitsEquations(AddSets(EmptyModel, {"t"}), T, sys), T, sys),
        T, sys, ld)

(* LPModel._build_model as a whole *)
LPBuilt(T, sys, ld) == LinearObjective(BaseBuilt(T, sys, ld), T, sys)

(* what DCModel._build_model leaves in self.m, however it ends *)
DCLeft(T, n, sys, ld) ==
    IF DOMAIN ld = {} THEN EmptyModel
    ELSE LET m1 == DCBalanceEquations(
                     ReserveEquations(UnitsEquations(AddSets(EmptyModel, {"t"}), T, sys),
                                      T, sys),
                     T, n, sys, ld)
         IN IF FlowReserveRaises(n, sys, ld) THEN m1
            ELSE DualSuffix(LinearObjective(DCFlowReserve(m1, T, n, sys, ld), T, sys))

(* lines 260-263 *)
Contingencies(n, cs) == IF cs.all THEN Arcs(n) ELSE cs.arcs

TUC(T, sys, C) ==
    { <<t, u, c[1], c[2]>> : t \in Periods(T), u \in Names(sys), c \in C }

(* SCDCModel._build_security_constraints, lines 257-304 *)
SecurityUnitsOn(mm, T, sys, C) ==
    AddCons(AddVars(AddSets(mm, {"contingencies"}), {"varPowerC", "varAngleC"}),
      << Con("eq_contingency_ramp_up", "eq_contingency_ramp_up",
             { x \in TUC(T, sys, C) : ~(UnitOf(sys, x[2]).ramp_up = None \/ x[1] = first(T)) }),
         Con("eq_contingency_ramp_down", "eq_contingency_ramp_down",
             { x \in TUC(T, sys, C) : ~(UnitOf(sys, x[2]).ramp_down = None \/ x[1] = first(T)) }),
         Con("eq_contingency_min_power", "eq_contingency_min_power", TUC(T, sys, C)),
         Con("eq_contingency_max_power", "eq_contingency_max_power", TUC(T, sys, C)),
         Con("eq_contingency_react_up", "eq_contingency_react_up",
             { x \in TUC(T, sys, C) : UnitOf(sys, x[2]).ramp_up # None }),
         Con("eq_contingency_react_down", "eq_contingency_react_down",
             { x \in TUC(T, sys, C) : UnitOf(sys, x[2]).ramp_down # None }) >>)

SecurityUnits_Fresh(mm, T, sys, C) == SecurityUnitsOn(EmptyModel, T, sys, C)
SecurityUnits(mm, T, sys, C) == SecurityUnitsOn(mm, T, sys, C)

(* lines 308-327 *)
SecurityFlows(mm, T, n, sys, ld, C) ==
    AddBalance(
      AddCons(mm,
        << Con("eq_contingencies_flow_limits_up", "contingencies_flow_limit_up",
               { <<x[1], x[2], x[3], c[1], c[2]>> : x \in LimitedArcs(T, n), c \in C }),
           Con("eq_contingencies_flow_limits_lo", "contingencies_flow_limit_lo",
               { <<x[1], x[2], x[3], c[1], c[2]>> : x \in LimitedArcs(T, n), c \in C }),
           Con("eq_contingencies_flow_balance", "contingencies_eq_flow_balance",
               { <<t, b, c[1], c[2]>> : t \in Periods(T), b \in Buses(n), c \in C }) >>),
      { Bal("eq_contingencies_flow_balance", x[1], x[2], x[3],
            { u \in Names(sys) : link(n, x[2], u) }, demand(ld, x[2], x[1]),
            FlowTerms(n, x[2]))
        : x \in { <<t, b, c>> : t \in Periods(T), b \in Buses(n), c \in C } })

---------------------------------------------------------------------------
(* Inputs of the model construction *)

UCUnitTypes ==
    { ThermalUnit("u", 0, 10, 1, 1, 10, 50),
      WithDynamics(ThermalUnit("u", 0, 10, 1, 1, 10, 50),
                   Some(30), Some(20), Some(1), Some(1)) }

UCSystems ==
    UNION { { UCSystem([k \in 1..n |-> [f[k] EXCEPT !.name = UnitNames[k]]], r)
              : f \in [1..n -> UCUnitTypes], r \in {-1, 0, 1, ReserveDen} }
            : n \in 1..MaxUCUnits }

LineSets ==
    { { Line("b1", "b2", Some(40), 100) },
      { Line("b1", "b2", Some(40), 100), Line("b2", "b3", None, 50) } }

(* unit k feeds bus k (the first bus when there are fewer buses), or has   *)
(* no declared link                                                        *)
HomeBus(n, k) == IF BusOrder[k] \in Buses(n) THEN BusOrder[k] ELSE FirstBus(n)
LinkSets(ls, sys) ==
    { { <<HomeBus([lines |-> ls], k), sys.units[k].name>> : k \in K }
      : K \in SUBSET (1..Len(sys.units)) }

Networks(sys) ==
    UNION { { Network(ls, lk) : lk \in LinkSets(ls, sys) } : ls \in LineSets }

Profile(T) == [t \in 1..T |-> 20 * t]
LoadMaps(n, T) == { [b \in S |-> Profile(T)] : S \in SUBSET Buses(n) }

ContingencyArgs(n) ==
    { [all |-> TRUE, arcs |-> {}] } \cup { [all |-> FALSE, arcs |-> A] : A \in SUBSET Arcs(n) }

NoNetwork == Network({}, {})
NoContingencies == [all |-> FALSE, arcs |-> {}]

NodalClasses == {"DCModel", "SCDCModel"}

---------------------------------------------------------------------------
(* _build_model *)

(* T: len(load), or len(list(load.values())[0]) for the nodal classes *)
BT == IF cls \in NodalClasses
      THEN Len(ucload[CHOOSE b \in DOMAIN ucload : TRUE])
      ELSE Len(ucload)

(* BaseModel._build_model lines 116-117, DCModel._build_model lines 225-227 *)
BuildModel(c, sys, n, ld, cs) ==
    /\ bpc = "idle"
    /\ cls' = c /\ ucsys' = sys /\ net' = n /\ ucload' = ld /\ conts' = cs
    /\ IF c \in NodalClasses /\ DOMAIN ld = {}
       THEN m' = EmptyModel /\ berr' = "IndexError@226" /\ bpc' = "error"
       ELSE m' = AddSets(EmptyModel, {"t"}) /\ berr' = "none" /\ bpc' = "units"
    /\ UNCHANGED <<liVars, feasVars, supVars>>

BuildSingleBus ==
    bpc = "idle" /\ \E c \in {"BaseModel", "LPModel"}, sys \in UCSystems, T \in 1..MaxT :
        BuildModel(c, sys, NoNetwork, Profile(T), NoContingencies)

BuildDC ==
    bpc = "idle" /\ \E sys \in UCSystems, T \in 1..MaxT :
      \E n \in Networks(sys) : \E ld \in LoadMaps(n, T) :
        BuildModel("DCModel", sys, n, ld, NoContingencies)

BuildSCDC ==
    bpc = "idle" /\ \E sys \in UCSystems, T \in 1..MaxT :
      \E n \in Networks(sys) : \E ld \in LoadMaps(n, T), cs \in ContingencyArgs(n) :
        BuildModel("SCDCModel", sys, n, ld, cs)

BuildUnitsEquations ==
    /\ bpc = "units"
    /\ m' = UnitsEquations(m, BT, ucsys)
    /\ bpc' = "reserve"
    /\ UNCHANGED <<cls, ucsys, net, ucload, conts, berr, liVars, feasVars, supVars>>

BuildReserveEquations ==
    /\ bpc = "reserve"
    /\ m' = ReserveEquations(m, BT, ucsys)
    /\ bpc' = "balance"
    /\ UNCHANGED <<cls, ucsys, net, ucload, conts, berr, liVars, feasVars, supVars>>

(* BaseModel._build_balance_equations; BaseModel._build_model ends here *)
BuildBalanceEquations ==
    /\ bpc = "balance"
    /\ cls \notin NodalClasses
    /\ m' = BaseBalanceEquations(m, BT, ucsys, ucload)
    /\ bpc' = IF cls = "BaseModel" THEN "done" ELSE "objective"
    /\ UNCHANGED <<cls, ucsys, net, ucload, conts, berr, liVars, feasVars, supVars>>

(* DCModel._build_balance_equations, which overrides the one above.  A     *)
(* component whose rule raised is not counted as built.                    *)
BuildDCBalanceEquations ==
    /\ bpc = "balance"
    /\ cls \in NodalClasses
    /\ IF FlowReserveRaises(net, ucsys, ucload)
       THEN /\ m' = DCBalanceEquations(m, BT, net, ucsys, ucload)
            /\ berr' = "KeyError@220"
            /\ bpc' = "error"
       ELSE /\ m' = DCFlowReserve(DCBalanceEquations(m, BT, net, ucsys, ucload),
                                  BT, net, ucsys, ucload)
            /\ berr' = berr
            /\ bpc' = "objective"
    /\ UNCHANGED <<cls, ucsys, net, ucload, conts, liVars, feasVars, supVars>>

(* LPModel._build_linear_objective; LPModel._build_model ends here, and    *)
(* DCModel._build_model after adding the dual suffix                       *)
BuildLinearObjective ==
    /\ bpc = "objective"
    /\ m' = IF cls \in NodalClasses
            THEN DualSuffix(LinearObjective(m, BT, ucsys))
            ELSE LinearObjective(m, BT, ucsys)
    /\ bpc' = IF cls = "SCDCModel" THEN "security" ELSE "done"
    /\ UNCHANGED <<cls, ucsys, net, ucload, conts, berr, liVars, feasVars, supVars>>

(* SCDCModel._build_security_constraints.  With no contingency the loops   *)
(* of lines 305 and 330 have no pass.  With one, line 307 indexes          *)
(* varAngleC by the set m.contingencies itself and line 332 reads          *)
(* m.varFlowC, which is never created: the method ends in the exception of *)
(* the first of the two that the modelling library rejects.                *)
BuildSecurityConstraints ==
    /\ bpc = "security"
    /\ LET C  == Contingencies(net, conts)
           m1 == SecurityUnits(m, BT, ucsys, C)
           m2 == SecurityFlows(m1, BT, net, ucsys, ucload, C)
       IN IF C = {}
          THEN m' = m2 /\ berr' = berr /\ bpc' = "done"
          ELSE \/ m' = m1 /\ berr' = "KeyError@307" /\ bpc' = "error"
               \/ m' = m2 /\ berr' = "AttributeError@332" /\ bpc' = "error"
    /\ UNCHANGED <<cls, ucsys, net, ucload, conts, liVars, feasVars, supVars>>

BuildNext ==
    \/ BuildSingleBus \/ BuildDC \/ BuildSCDC
    \/ BuildUnitsEquations \/ BuildReserveEquations
    \/ BuildBalanceEquations \/ BuildDCBalanceEquations
    \/ BuildLinearObjective \/ BuildSecurityConstraints

BuildSpec == Init /\ [][BuildNext]_vars

---------------------------------------------------------------------------
(* Assignments of on/startup/shutdown of one unit that satisfy the         *)
(* constraints of _build_units_equations.  Every constraint of that method *)
(* is per (t, u) and refers to periods tt <= t only, so the assignments    *)
(* that satisfy them are exactly those built period by period below.  The  *)
(* constraints on varPower (ramps, min/max power) exclude no assignment of *)
(* the binaries that satisfies eq_startup: P[t] = min_power * on[t]        *)
(* satisfies them.                                                         *)

MaxHorizon == 3
MaxMinTime == 1

MinTimes == {None} \cup { Some(k) : k \in 0..MaxMinTime }
FeasUnits ==
    { WithDynamics(ThermalUnit("u1", 0, 10, 1, 1, 10, 50), None, None, mu, mr)
      : mu \in MinTimes, mr \in MinTimes }

(* line 25 *)
eq_startup_Swapped(on, prev, su, sd) == on - prev = sd - su
eq_startup(on, prev, su, sd) == on - prev = su - sd

(* sum(x[tt] for tt in m.t if t - w <= tt <= t), x given up to period t *)
WindowSum(x, T, t, w) ==
    SeqSum([k \in 1..Len(x) |->
              IF (k - 1) \in Periods(T) /\ t - w <= k - 1 /\ k - 1 <= t THEN x[k] ELSE 0])

(* lines 32-35 and 42-45 *)
eq_min_uptime(su, sd, T, t, w) == sd[t + 1] <= 1 - WindowSum(su, T, t, w)
eq_min_rest(su, sd, T, t, w) == su[t + 1] <= 1 - WindowSum(sd, T, t, w)

FeasBegin(T, u) ==
    /\ horizon = 0
    /\ horizon' = T
    /\ funit' = u
    /\ UNCHANGED <<binIsOn, binStartUp, binShutDown, liVars, buildVars, supVars>>

ChooseUnit == horizon = 0 /\ \E T \in 1..MaxHorizon, u \in FeasUnits : FeasBegin(T, u)

(* the values of period t = Len(binIsOn), subject to the constraints built *)
(* for (t, u)                                                              *)
AssignPeriod ==
    /\ Len(binIsOn) < horizon
    /\ \E on \in {0, 1}, su \in {0, 1}, sd \in {0, 1} :
         LET t   == Len(binIsOn)
             sus == Append(binStartUp, su)
             sds == Append(binShutDown, sd)
         IN /\ eq_startup_built(horizon, t) => eq_startup(on, binIsOn[t], su, sd)
            /\ eq_min_uptime_built(funit, t) =>
                  eq_min_uptime(sus, sds, horizon, t, Val(funit.min_uptime))
            /\ eq_min_rest_built(funit, t) =>
                  eq_min_rest(sus, sds, horizon, t, Val(funit.min_rest))
            /\ binIsOn' = Append(binIsOn, on)
            /\ binStartUp' = sus
            /\ binShutDown' = sds
    /\ UNCHANGED <<horizon, funit, liVars, buildVars, supVars>>

FeasNext == ChooseUnit \/ AssignPeriod

FeasSpec == Init /\ [][FeasNext]_vars

---------------------------------------------------------------------------
(* LPModel._build_linear_objective, lines 134-144, for one (t, u).  Powers *)
(* are multiples of (max_power - min_power) / (num_lines * GridPerSegment) *)
(* and are kept as the integer P * NG(n); fuel is kept as the integer      *)
(* F * C2Den * NG(n)^2.                                                    *)

MaxLines == 3
GridPerSegment == 2

NG(n) == n * GridPerSegment

(* the power with grid index j, j = 0 .. NG(n) *)
GridPoint(u, n, j) == u.min_power * NG(n) + j * (u.max_power - u.min_power)

(* np.linspace(min_power, max_power, num_lines + 1)[k] *)
linspace(u, n, k) == GridPoint(u, n, k * GridPerSegment)

(* ThermalUnit.input_output *)
input_output(u, n, x) ==
    C2Den * u.c0 * NG(n) * NG(n) + C2Den * u.c1 * x * NG(n) + u.c2n * x * x

(* the line added in pass k of the loop of line 138: it passes through     *)
(* (p[k], fp[k]) with slope dfp / dp = (fp[k+1] - fp[k]) / (p[k+1] - p[k]) *)
SupportLine_NextIntercept(u, n, k) ==
    [p   |-> linspace(u, n, k),
     fp  |-> input_output(u, n, linspace(u, n, k + 1)),
     dp  |-> linspace(u, n, k + 1) - linspace(u, n, k),
     dfp |-> input_output(u, n, linspace(u, n, k + 1))
               - input_output(u, n, linspace(u, n, k))]
SupportLine(u, n, k) ==
    [p   |-> linspace(u, n, k),
     fp  |-> input_output(u, n, linspace(u, n, k)),
     dp  |-> linspace(u, n, k + 1) - linspace(u, n, k),
     dfp |-> input_output(u, n, linspace(u, n, k + 1))
               - input_output(u, n, linspace(u, n, k))]

(* dp times the right-hand side fp[k] * on + slope * (P - p[k]) *)
LineTimesDp(l, on, x) == l.fp * on * l.dp + l.dfp * (x - l.p)

(* dp times the largest right-hand side; with min_power = max_power every  *)
(* slope is 0.0 / 0.0, not a number                                        *)
Envelope(ls, on, x) ==
    IF \E k \in 1..Len(ls) : ls[k].dp = 0 THEN None
    ELSE Some(SetMax({ LineTimesDp(ls[k], on, x) : k \in 1..Len(ls) }))

SupportUnits ==
    { ThermalUnit("u1", 0, 10, 1, 1, 0, 50),
      ThermalUnit("u1", 5, 8, 2, 2, 10, 60),
      ThermalUnit("u1", 3, 10, 0, 1, 10, 50),
      ThermalUnit("u1", 0, 10, 1, 1, 30, 30) }

SupportBegin(u, n) ==
    /\ spc = "idle"
    /\ sunit' = u /\ snum' = n /\ slines' = <<>>
    /\ spc' = "lines"
    /\ UNCHANGED <<son, sx, senv, liVars, buildVars, feasVars>>

ChooseSupportUnit ==
    spc = "idle" /\ \E u \in SupportUnits, n \in 1..MaxLines : SupportBegin(u, n)

(* one pass of "for i in range(num_lines)" *)
AddSupportLine ==
    /\ spc = "lines"
    /\ slines' = Append(slines, SupportLine(sunit, snum, Len(slines)))
    /\ spc' = IF Len(slines) + 1 = snum THEN "built" ELSE "lines"
    /\ UNCHANGED <<sunit, snum, son, sx, senv, liVars, buildVars, feasVars>>

(* the bound that the lines put on varFuelCons[t, u] at a power P *)
EvaluateAt(on, j) ==
    /\ spc = "built"
    /\ son' = on /\ sx' = j
    /\ senv' = Envelope(slines, on, GridPoint(sunit, snum, j))
    /\ spc' = "evaluated"
    /\ UNCHANGED <<sunit, snum, slines, liVars, buildVars, feasVars>>

Evaluate ==
    spc = "built" /\ \E on \in {0, 1}, j \in 0..NG(snum) : EvaluateAt(on, j)

SupportNext == ChooseSupportUnit \/ AddSupportLine \/ Evaluate

SupportSpec == Init /\ [][SupportNext]_vars

---------------------------------------------------------------------------
(* Faithfulness of the fixed-point arithmetic.  A model power is the floor *)
(* of the exact quotient, so a model mismatch E stands for an exact        *)
(* mismatch in [E, E + n) for n units, and a model norm for an exact norm  *)
(* less than n away.  No reachable pass of the loop has a mismatch or a    *)
(* norm that close to a threshold of lines 82-88, so every branch of the   *)
(* model is the branch the exact arithmetic takes.                         *)

InvExact(u, X) == MulPow5QR(Abs(InvArg(u, X)), 13, InvDen(u))[2] = 0

Clipped(u, X) ==
    \/ inv_marginal_cost(u, X) < u.min_power * PowScale
    \/ inv_marginal_cost(u, X) >= u.max_power * PowScale

FixedPointFaithful ==
    history # <<>> =>
        LET n == Len(system)
            X == history[Len(history)].lambda
        IN /\ ~(eps > -n /\ eps < 0)
           /\ eps = 0 => \A k \in 1..n : Clipped(system[k], X) \/ InvExact(system[k], X)
           /\ ~(eps >= ConvTol - n /\ eps < ConvTol)
           /\ ~(eps > -ConvTol - n /\ eps <= -ConvTol)
           /\ NormLt(powers, min_power_vec(system), SatTol - n)
                = NormLt(powers, min_power_vec(system), SatTol + n)
           /\ NormLt(powers, max_power_vec(system), SatTol - n)
                = NormLt(powers, max_power_vec(system), SatTol + n)

---------------------------------------------------------------------------
(* Claims about LambdaIteration.solve *)

SumMin(sys) == SeqSum(min_power_vec(sys))
SumMax(sys) == SeqSum(max_power_vec(sys))
LastPair == history[Len(history)]

UnitA == ThermalUnit("u1", 0, 10, 1, 1, 0, 100)
TwinSystem(sys) ==
    /\ Len(sys) = 2
    /\ sys[1].c0 = sys[2].c0 /\ sys[1].c1 = sys[2].c1 /\ sys[1].c2n = sys[2].c2n
    /\ sys[1].max_power = 50 /\ sys[2].max_power = 50

Returned == pc = "done"
Ended == pc \in {"done", "raised"}

(* C1: for every load with sum(min_power) <= load <= sum(max_power), solve *)
(* with the default MAX_ITER returns powers whose sum is within 1e-3 of     *)
(* the load, unless it stopped by saturation with the load at or beyond an *)
(* aggregate bound.                                                        *)
C1_FeasibleLoadIsMet ==
    (Ended /\ MAX_ITER = DefaultMaxIter
        /\ SumMin(system) <= load /\ load <= SumMax(system))
    => /\ Returned
       /\ \/ Abs(SeqSum(result) - load) < ConvTol
          \/ exit = "saturated" /\ (load <= SumMin(system) \/ load >= SumMax(system))

(* C2: the returned vector is the clipped dispatch at the last lambda of   *)
(* the history; when the last mismatch is not zero, lambda_value has moved *)
(* away from that lambda by the last halved Delta.                         *)
C2_ReturnedAtHistoryLambda ==
    Returned =>
        /\ result = Dispatch(system, LastPair.lambda)
        /\ LastPair.err # 0 =>
              /\ Abs(Val(lambda_value) - LastPair.lambda) = Delta
              /\ Val(lambda_value) # LastPair.lambda

C2_Witness ==
    /\ Returned /\ exit = "converged" /\ i >= 2
    /\ LastPair.err # 0
    /\ result # Dispatch(system, Val(lambda_value))

(* C3: a call with MAX_ITER >= 1 does not raise: it runs between 1 and     *)
(* MAX_ITER passes and returns a power vector; the history holds one pair  *)
(* per pass of this call only; a call that ran out of passes shows         *)
(* MAX_ITER pairs, the last with |mismatch| >= 1e-3.                       *)
C3_ReturnsWithHistory ==
    /\ pc # "raised"
    /\ i <= MAX_ITER
    /\ Len(history) = i
    /\ pc \in {"return", "done"} =>
          /\ 1 <= i
          /\ Len(powers) = Len(system)
          /\ exit \in {"converged", "saturated", "exhausted"}
    /\ Returned => result = powers
    /\ (pc \in {"return", "done"} /\ exit = "exhausted") =>
          /\ Len(history) = MAX_ITER
          /\ Abs(LastPair.err) >= ConvTol

(* C4: two units with the same curve and max_power 50, load 150: the       *)
(* default solve leaves its loop through the saturation test at the        *)
(* all-maximum vector.                                                     *)
C4_OverloadSaturates ==
    (Ended /\ MAX_ITER = DefaultMaxIter /\ TwinSystem(system)
        /\ load = 150 * PowScale)
    => /\ Returned
       /\ exit = "saturated"
       /\ ~Converged(eps)
       /\ NormLt(result, max_power_vec(system), SatTol)

(* C5: single unit (0, 10, 0.1), fuel cost 1, 0..100, load 50: solve       *)
(* converges with power within 1e-3 of 50 and leaves lambda_value within   *)
(* 1% of 20.                                                               *)
C5_LambdaIsMarginalCost ==
    (Ended /\ system = <<UnitA>> /\ load = 50 * PowScale)
    => /\ Returned
       /\ exit = "converged"
       /\ Abs(result[1] - 50 * PowScale) < ConvTol
       /\ Abs(Val(lambda_value) - 20 * LamScale) * 100 <= 20 * LamScale

---------------------------------------------------------------------------
(* Claims about the startup/shutdown balance *)

Assigned == horizon >= 1 /\ Len(binIsOn) = horizon

(* C6 as stated: for every assignment that satisfies the constraints, the  *)
(* startups minus the shutdowns of ALL periods 0..T-1 equal                *)
(* on[T-1] - on[0].                                                        *)
C6_TelescopeAllPeriods ==
    Assigned =>
        SeqSum(binStartUp) - SeqSum(binShutDown) = binIsOn[horizon] - binIsOn[1]

(* C6 amended: the startups minus the shutdowns of the periods 1..T-1      *)
(* equal on[T-1] - on[0]; period 0 has no balance constraint.              *)
C6_TelescopeFromSecondPeriod ==
    Assigned =>
        SeqSum(Tail(binStartUp)) - SeqSum(Tail(binShutDown))
            = binIsOn[horizon] - binIsOn[1]

C6_Witness ==
    /\ Assigned /\ horizon >= 3
    /\ binStartUp[1] # binShutDown[1]
    /\ binIsOn[horizon] # binIsOn[1]
    /\ SeqSum(Tail(binShutDown)) >= 1

---------------------------------------------------------------------------
(* Claims about the model construction *)

Families(mm) ==
    { c.name : c \in mm.cons } \cup (IF mm.support = {} THEN {} ELSE {"support_lines"})
Rules(mm) == { c.rule : c \in mm.cons }

ReserveRules ==
    {"reserve_ge_power", "reserve_le_max_power", "reserve_ramp_up",
     "reserve_ramp_down", "balance_reserve"}

BuildEnded == bpc \in {"done", "error"}
AbsentBuses == Buses(net) \ DOMAIN ucload

(* C7: built with reserve_req = 0 the model has no reserve variable and no *)
(* reserve constraint; built with reserve_req = 0.1 it has the five        *)
(* reserve constraint families together, and they are all that the reserve *)
(* requirement adds.                                                       *)
C7_FiveReserveFamilies ==
    (bpc = "done" /\ cls \in {"BaseModel", "LPModel"}) =>
        /\ ucsys.reserve_req = 0 =>
              "varReserve" \notin m.vars /\ Rules(m) \cap ReserveRules = {}
        /\ ucsys.reserve_req = 1 =>
              /\ ReserveRules \subseteq Rules(m)
              /\ Rules(m) \ Rules(BaseBuilt(BT, [ucsys EXCEPT !.reserve_req = 0], ucload))
                    = ReserveRules

(* C8: no build completes with reserve_req outside [0, 1) or with a unit   *)
(* that has no bus link; no completed model has a unit whose power is in   *)
(* no nodal balance, or reserve variables without a system reserve         *)
(* requirement.                                                            *)
C8_RejectsMalformed ==
    bpc = "done" =>
        /\ 0 <= ucsys.reserve_req /\ ucsys.reserve_req < ReserveDen
        /\ cls \in NodalClasses =>
              \A u \in Names(ucsys) :
                  /\ \E b \in Buses(net) : link(net, b, u)
                  /\ \E e \in m.balance : e.name = "eq_flow_balance" /\ u \in e.units
        /\ "varReserve" \in m.vars =>
              Families(m) \cap {"eq_balance_reserve", "eq_flow_reserve"} # {}

(* C9 as stated: every later class builds every constraint family of its   *)
(* predecessor, for the same units, horizon and reserve_req.               *)
C9_ChainIsSuperset ==
    bpc = "done" =>
        /\ cls = "LPModel" =>
              Families(BaseBuilt(BT, ucsys, ucload)) \subseteq Families(m)
        /\ cls = "DCModel" =>
              Families(LPBuilt(BT, ucsys, Profile(BT))) \subseteq Families(m)
        /\ cls = "SCDCModel" =>
              Families(DCLeft(BT, net, ucsys, ucload)) \subseteq Families(m)

CopperPlate == {"eq_balance_power", "eq_balance_reserve"}

(* C9 amended: LPModel builds every family of BaseModel; SCDCModel leaves  *)
(* in self.m every family DCModel leaves there, however either ends;       *)
(* DCModel replaces the copper-plate balance families by the nodal ones    *)
(* and, when it completes, builds every other family of LPModel; when it   *)
(* ends in an exception it has built no support line.                      *)
C9_ChainExceptCopperPlate ==
    /\ (bpc = "done" /\ cls = "LPModel") =>
          /\ Families(BaseBuilt(BT, ucsys, ucload)) \subseteq Families(m)
          /\ "support_lines" \in Families(m)
    /\ (BuildEnded /\ cls = "SCDCModel") =>
          Families(DCLeft(BT, net, ucsys, ucload)) \subseteq Families(m)
    /\ (BuildEnded /\ cls \in NodalClasses) => Families(m) \cap CopperPlate = {}
    /\ (bpc = "done" /\ cls = "DCModel") =>
          /\ Families(LPBuilt(BT, ucsys, Profile(BT))) \ CopperPlate \subseteq Families(m)
          /\ {"eq_flow_limits_up", "eq_flow_limits_lo", "eq_flow_balance"}
                \subseteq Families(m)
          /\ ReserveActive(ucsys) <=> "eq_flow_reserve" \in Families(m)
    /\ (bpc = "error" /\ cls = "DCModel") => "support_lines" \notin Families(m)

C9_Witness ==
    /\ BuildEnded /\ cls = "SCDCModel" /\ ReserveActive(ucsys)
    /\ "eq_flow_reserve" \in Families(m)
    /\ "eq_contingency_max_power" \in Families(m)
    /\ "eq_balance_power" \in Families(LPBuilt(BT, ucsys, Profile(BT)))

(* C10: with a bus absent from the load mapping and 0 <= reserve_req < 1,  *)
(* the nodal build does not fail on the load, and every constraint on that *)
(* bus's demand uses demand 0.                                             *)
C10_AbsentBusIsZeroDemand ==
    (BuildEnded /\ cls \in NodalClasses /\ AbsentBuses # {}
        /\ 0 <= ucsys.reserve_req /\ ucsys.reserve_req < ReserveDen)
    => /\ berr \notin {"IndexError@226", "KeyError@220"}
       /\ \A e \in m.balance : e.bus \in AbsentBuses => e.demand = 0

(* the arcs whose flow enters the balance of bus b: Z(b, i) times the      *)
(* angle difference, for every other bus i                                 *)
FlowEnds(e) == { f[1] : f \in e.flows }

(* C11: the SCDCModel build completes for every network and contingency    *)
(* set, and for every contingency (ca, cb) and period t the flow variable  *)
(* of the lost arc is fixed to 0 and the arc is in neither end's           *)
(* post-contingency balance.                                               *)
C11_LostArcCarriesNoPower ==
    (BuildEnded /\ cls = "SCDCModel" /\ berr \notin {"IndexError@226", "KeyError@220"})
    => /\ bpc = "done"
       /\ \A c \in Contingencies(net, conts), t \in Periods(BT) :
             /\ <<"varFlowC", t, c, c>> \in m.fixed
             /\ \A e \in m.balance :
                   (e.name = "eq_contingencies_flow_balance" /\ e.c = c /\ e.t = t) =>
                       /\ e.bus = c[1] => c[2] \notin FlowEnds(e)
                       /\ e.bus = c[2] => c[1] \notin FlowEnds(e)

---------------------------------------------------------------------------
(* Claims about the support lines *)

Evaluated == spc = "evaluated" /\ son = 1
SupportP == GridPoint(sunit, snum, sx)
AtBreakpoint == sx % GridPerSegment = 0

(* dp * F(P) *)
CurveTimesDp == input_output(sunit, snum, SupportP) * slines[1].dp

(* C12 as stated: for a unit that is on, the largest support line at P     *)
(* never exceeds F(P) for P in [min_power, max_power], and equals F at the *)
(* breakpoints.                                                            *)
C12_EnvelopeUnderestimates ==
    Evaluated =>
        /\ senv # None
        /\ Val(senv) <= CurveTimesDp
        /\ AtBreakpoint => Val(senv) = CurveTimesDp

(* C12 amended: with min_power < max_power, the largest support line at P  *)
(* is never below F(P), and equals F at the breakpoints.                   *)
C12_EnvelopeOverestimates ==
    (Evaluated /\ sunit.min_power < sunit.max_power) =>
        /\ senv # None
        /\ Val(senv) >= CurveTimesDp
        /\ AtBreakpoint => Val(senv) = CurveTimesDp

C12_Witness ==
    /\ Evaluated /\ sunit.min_power < sunit.max_power
    /\ sunit.c2n > 0 /\ snum >= 2 /\ ~AtBreakpoint
    /\ senv # None /\ Val(senv) > CurveTimesDp

---------------------------------------------------------------------------
(* Claims about the bracket of LambdaIteration.solve *)

RECURSIVE Pow2(_)
Pow2(k) == IF k = 0 THEN 1 ELSE 2 * Pow2(k - 1)

InCall == pc \in {"loop", "return", "done"}

(* C13: after every pass k of a call, Delta is                             *)
(* (lambda_max - lambda_min) / 2^(k+1), lambda_value is the lambda of that *)
(* pass moved by exactly Delta (down for a positive mismatch, up for a     *)
(* negative one, not at all for 0), and lambda_value is inside             *)
(* [lambda_min, lambda_max], strictly when lambda_min < lambda_max.        *)
C13_BracketHalves ==
    InCall =>
        /\ Delta * Pow2(i + 1) = lambda_max(system) - lambda_min(system)
        /\ i >= 1 =>
              Val(lambda_value) =
                  IF LastPair.err > 0 THEN LastPair.lambda - Delta
                  ELSE IF LastPair.err < 0 THEN LastPair.lambda + Delta
                  ELSE LastPair.lambda
        /\ lambda_min(system) <= Val(lambda_value)
        /\ Val(lambda_value) <= lambda_max(system)
        /\ lambda_min(system) < lambda_max(system) =>
              /\ lambda_min(system) < Val(lambda_value)
              /\ Val(lambda_value) < lambda_max(system)

C13_Witness ==
    /\ pc = "done" /\ i >= 3
    /\ lambda_min(system) < lambda_max(system)
    /\ \E a, b \in 1..Len(history) : history[a].err > 0 /\ history[b].err < 0
    /\ Delta > 0

=============================================================================
